---- MODULE Spec2Model ----
(***************************************************************************)
(* A model of the persistence layer of EagleAgent: the namespaced          *)
(* FirestoreStore (firestore_store.py, includes/firestore_store.py) and    *)
(* the TimestampedFirestoreSaver (includes/timestamped_firestore_saver.py).*)
(*                                                                         *)
(* Strings are sequences of code points, so that the identifier encoding   *)
(* of _make_doc_id is a real concatenation and identifiers have the        *)
(* lexicographic order Firestore gives them.  The collection is a function *)
(* from the identifiers of the documents that exist to their bodies.       *)
(* Timestamps are integers read from one non-decreasing clock.             *)
(***************************************************************************)
EXTENDS Integers, Sequences, FiniteSets, TLC

VARIABLES
    docs,       \* self.collection: document id -> document body, for the documents that exist
    clock,      \* what datetime.now(timezone.utc) returns next
    pc,         \* per caller: where it is inside batch()
    op,         \* per caller: the PutOp it is executing
    now,        \* per caller: the local `now` of its PutOp
    existing,   \* per caller: the snapshot `existing` read before the write
    last,       \* the result appended to `results` by the operation that completed last
    issued,     \* number of operations started so far
    applied,    \* history: document id -> the PutOp whose set() the server applied last
    creator,    \* history: document id -> `now` of the put that made the live document exist
    raced,      \* history: ids on which two first-time puts both read "absent" while both in flight
    ops,        \* batch(): the operations passed in
    results,    \* batch(): the local list `results`
    status,     \* batch(): "idle", "running", "returned" (results handed to the caller) or "raised"
    calls,      \* history: the remote calls batch() issued, in order, with their outcome
    reached,    \* history: the collection as it was when batch() reached each operation
    checkpoints,    \* self.checkpoints_collection: document path -> fields
    ttl_days,       \* self.ttl_days of the saver
    cpc,            \* per caller: where it is inside TimestampedFirestoreSaver.put
    request,        \* per caller: the config and checkpoint its put was called with
    result,         \* per caller: the config `result` returned by super().put
    expire_at,      \* per caller: the local `expire_at`
    outcome,        \* per caller: how its last put ended, "returned" or "raised"
    attached,       \* history: partition path -> checkpoint_id of the put whose set() was applied last
    refused,        \* history: paths of the checkpoints whose base write failed and was not repeated
    tool,           \* the cleanup tool that runs: "clear", "force", or "none"
    tpc,            \* where the cleanup tool is
    response,       \* what the operator typed at input(), None before
    partition_refs, \* the tool's list of partition references still to process, current one first
    streamed,       \* `docs`: the sub-documents of the last stream()
    sub_deleted,    \* `sub_deleted` / `deleted` of the current sub-collection
    deleted_count,  \* `deleted_count` / `total_deleted`
    removed,        \* history: how many stored documents the tool has deleted
    reported,       \* history: how many deletion failures the tool has printed
    at_start        \* history: the checkpoints collection when the tool was started

storeVars == <<pc, op, now, existing, last, issued, applied, creator, raced>>
batchVars == <<ops, results, status, calls, reached>>
saverVars == <<checkpoints, ttl_days, cpc, request, result, expire_at, outcome, attached,
               refused>>
cleanVars == <<tool, tpc, response, partition_refs, streamed, sub_deleted, deleted_count,
               removed, reported, at_start>>

vars == <<docs, clock, pc, op, now, existing, last, issued, applied, creator, raced,
          batchVars, saverVars, cleanVars>>

----------------------------------------------------------------------------
(* Bounds of the model. *)

MaxTime == 1
MaxOps == 3
MaxLimit == 2
MaxOffset == 2

(* The separators of _make_doc_id, as code points. *)
Slash == 47
Colon == 58

Procs == {"c1", "c2"}

(* Optional values: None is the empty sequence, Some(x) a one-element one. *)
None == <<>>
Some(x) == <<x>>

----------------------------------------------------------------------------
(* Inputs of the store state machine: "u", "v", "u/v" and the key "k". *)

Namespaces == { <<(<<117>>)>>, <<(<<117>>), (<<118>>)>>, <<(<<117, 47, 118>>)>> }
Keys == { <<107>> }
Values == { [name |-> "Tom"], [job |-> "Engineer"] }

----------------------------------------------------------------------------
(* "/".join(namespace) *)
RECURSIVE join(_)
join(namespace) ==
    IF namespace = <<>> THEN <<>>
    ELSE IF Len(namespace) = 1 THEN namespace[1]
    ELSE namespace[1] \o <<Slash>> \o join(Tail(namespace))

(* FirestoreStore._make_doc_id: f"{namespace_path}:{key}" *)
make_doc_id(namespace, key) == join(namespace) \o <<Colon>> \o key

(* A conversion without the `if not doc.exists` test: an Item with the default value. *)
doc_to_item_default(d, id, namespace, key) ==
    Some([value      |-> IF id \in DOMAIN d THEN d[id].value ELSE <<>>,
          key        |-> key,
          namespace  |-> namespace,
          created_at |-> IF id \in DOMAIN d THEN d[id].created_at ELSE 0,
          updated_at |-> IF id \in DOMAIN d THEN d[id].updated_at ELSE 0])

(* FirestoreStore._doc_to_item: None when the document does not exist; else the
   stored value and timestamps under the namespace and key of the request. *)
doc_to_item(d, id, namespace, key) ==
    IF id \notin DOMAIN d THEN None
    ELSE Some([value      |-> d[id].value,
               key        |-> key,
               namespace  |-> namespace,
               created_at |-> d[id].created_at,
               updated_at |-> d[id].updated_at])

(* What GetOp appends to results on the collection d. *)
get_result(d, namespace, key) ==
    doc_to_item(d, make_doc_id(namespace, key), namespace, key)

(* A set() that merges the new value map into the stored one (merge=True). *)
set_doc_merge(d, id, body) ==
    [i \in DOMAIN d \cup {id} |->
        IF i # id THEN d[i]
        ELSE IF id \notin DOMAIN d THEN body
        ELSE [body EXCEPT !.value =
                [f \in DOMAIN d[id].value \cup DOMAIN body.value |->
                    IF f \in DOMAIN body.value THEN body.value[f] ELSE d[id].value[f]]]]

(* doc_ref.set(body): the whole body replaces the document. *)
set_doc(d, id, body) ==
    [i \in DOMAIN d \cup {id} |-> IF i = id THEN body ELSE d[i]]

(* A delete that is never sent. *)
delete_doc_skip(d, id) == d

(* doc_ref.delete(): removes the document; no error when it does not exist. *)
delete_doc(d, id) ==
    [i \in DOMAIN d \ {id} |-> d[i]]

(* A put that never looks at the snapshot. *)
created_at_always_now(snapshot, t) == t

(* created_at = existing.get("created_at") if existing.exists else now *)
created_at_of(snapshot, t) ==
    IF snapshot = None THEN t ELSE snapshot[1].created_at

(* A put that carries the stored updated_at over, like created_at. *)
put_body_stale(o, snapshot, t) ==
    [value      |-> o.value,
     namespace  |-> o.namespace,
     key        |-> o.key,
     created_at |-> created_at_of(snapshot, t),
     updated_at |-> IF snapshot = None THEN t ELSE snapshot[1].updated_at]

(* The body PutOp writes. *)
put_body(o, snapshot, t) ==
    [value      |-> o.value,
     namespace  |-> o.namespace,
     key        |-> o.key,
     created_at |-> created_at_of(snapshot, t),
     updated_at |-> t]

(* Function update and removal, for the history variables. *)
Upd(f, x, v) == [i \in DOMAIN f \cup {x} |-> IF i = x THEN v ELSE f[i]]
Drop(f, x) == [i \in DOMAIN f \ {x} |-> f[i]]

----------------------------------------------------------------------------
NoOp == [namespace |-> <<>>, key |-> <<>>, value |-> [name |-> "Tom"]]
NoResult == [kind |-> "none", namespace |-> <<>>, key |-> <<>>, ret |-> None]

(* ttl_days: int = 7 *)
DefaultTtlDays == 7

(* No batch() has been called. *)
BatchIdle ==
    /\ ops = <<>>
    /\ results = <<>>
    /\ status = "idle"
    /\ calls = <<>>
    /\ reached = <<>>

(* No put of the saver has been called. *)
NoPut ==
    /\ checkpoints = <<>>
    /\ cpc = [p \in Procs |-> "idle"]
    /\ request = [p \in Procs |-> None]
    /\ result = [p \in Procs |-> None]
    /\ expire_at = [p \in Procs |-> 0]
    /\ outcome = [p \in Procs |-> "none"]
    /\ attached = <<>>
    /\ refused = {}

(* A saver constructed with the default ttl_days, no put in progress. *)
SaverIdle ==
    /\ ttl_days = DefaultTtlDays
    /\ NoPut

(* No cleanup tool has been started. *)
CleanIdle ==
    /\ tool = "none"
    /\ tpc = "off"
    /\ response = None
    /\ partition_refs = <<>>
    /\ streamed = <<>>
    /\ sub_deleted = 0
    /\ deleted_count = 0
    /\ removed = 0
    /\ reported = 0
    /\ at_start = <<>>

Init ==
    /\ docs = <<>>
    /\ clock = 0
    /\ pc = [p \in Procs |-> "idle"]
    /\ op = [p \in Procs |-> NoOp]
    /\ now = [p \in Procs |-> 0]
    /\ existing = [p \in Procs |-> None]
    /\ last = NoResult
    /\ issued = 0
    /\ applied = <<>>
    /\ creator = <<>>
    /\ raced = {}
    /\ BatchIdle
    /\ SaverIdle
    /\ CleanIdle

(* Time passes: later calls of datetime.now() return later values. *)
Tick ==
    /\ clock < MaxTime
    /\ clock' = clock + 1
    /\ UNCHANGED <<cleanVars, docs, pc, op, now, existing, last, issued, applied, creator, raced, batchVars, saverVars>>

(* GetOp: one remote read, the store is left alone. *)
GetOp(p, namespace, key) ==
    /\ pc[p] = "idle"
    /\ issued < MaxOps
    /\ issued' = issued + 1
    /\ last' = [kind |-> "get", namespace |-> namespace, key |-> key,
                ret |-> get_result(docs, namespace, key)]
    /\ UNCHANGED <<cleanVars, docs, clock, pc, op, now, existing, applied, creator, raced, batchVars, saverVars>>

(* PutOp with value None: one remote delete. *)
DeleteOp(p, namespace, key) ==
    /\ pc[p] = "idle"
    /\ issued < MaxOps
    /\ issued' = issued + 1
    /\ docs' = delete_doc(docs, make_doc_id(namespace, key))
    /\ applied' = Drop(applied, make_doc_id(namespace, key))
    /\ creator' = Drop(creator, make_doc_id(namespace, key))
    /\ last' = [kind |-> "delete", namespace |-> namespace, key |-> key, ret |-> None]
    /\ UNCHANGED <<cleanVars, clock, pc, op, now, existing, raced, batchVars, saverVars>>

(* PutOp with a value, first step: now = datetime.now(timezone.utc). *)
PutNow(p, namespace, key, value) ==
    /\ pc[p] = "idle"
    /\ issued < MaxOps
    /\ issued' = issued + 1
    /\ op' = [op EXCEPT ![p] = [namespace |-> namespace, key |-> key, value |-> value]]
    /\ now' = [now EXCEPT ![p] = clock]
    /\ pc' = [pc EXCEPT ![p] = "put_read"]
    /\ UNCHANGED <<cleanVars, docs, clock, existing, last, applied, creator, raced, batchVars, saverVars>>

(* PutOp, second step: existing = doc_ref.get(). *)
PutRead(p) ==
    /\ pc[p] = "put_read"
    /\ LET id == make_doc_id(op[p].namespace, op[p].key)
           snapshot == IF id \in DOMAIN docs THEN Some(docs[id]) ELSE None
       IN /\ existing' = [existing EXCEPT ![p] = snapshot]
          /\ raced' = IF /\ snapshot = None
                         /\ \E q \in Procs \ {p} :
                               /\ pc[q] = "put_write"
                               /\ make_doc_id(op[q].namespace, op[q].key) = id
                               /\ existing[q] = None
                      THEN raced \cup {id} ELSE raced
    /\ pc' = [pc EXCEPT ![p] = "put_write"]
    /\ UNCHANGED <<cleanVars, docs, clock, op, now, last, issued, applied, creator, batchVars, saverVars>>

(* PutOp, third step: doc_ref.set({...}); results.append(None). *)
PutWrite(p) ==
    /\ pc[p] = "put_write"
    /\ LET id == make_doc_id(op[p].namespace, op[p].key)
       IN /\ docs' = set_doc(docs, id, put_body(op[p], existing[p], now[p]))
          /\ applied' = Upd(applied, id,
                                [namespace |-> op[p].namespace, key |-> op[p].key,
                                 value |-> op[p].value, now |-> now[p]])
          /\ creator' = IF id \in DOMAIN docs THEN creator
                        ELSE Upd(creator, id, now[p])
    /\ last' = [kind |-> "put", namespace |-> op[p].namespace, key |-> op[p].key,
                ret |-> None]
    /\ pc' = [pc EXCEPT ![p] = "idle"]
    /\ op' = [op EXCEPT ![p] = NoOp]
    /\ now' = [now EXCEPT ![p] = 0]
    /\ existing' = [existing EXCEPT ![p] = None]
    /\ UNCHANGED <<cleanVars, clock, issued, raced, batchVars, saverVars>>

Step(p) ==
    \/ \E namespace \in Namespaces, key \in Keys : GetOp(p, namespace, key)
    \/ \E namespace \in Namespaces, key \in Keys : DeleteOp(p, namespace, key)
    \/ \E namespace \in Namespaces, key \in Keys, value \in Values :
          PutNow(p, namespace, key, value)
    \/ PutRead(p)
    \/ PutWrite(p)

Next ==
    \/ Tick
    \/ \E p \in Procs : Step(p)

(* Callers on any number of sessions, interleaved at every remote call. *)
Spec == Init /\ [][Next]_vars

(* Callers that never overlap: an operation starts only when no other is in flight. *)
NextSeq ==
    \/ Tick
    \/ \E p \in Procs : (\A q \in Procs \ {p} : pc[q] = "idle") /\ Step(p)

SpecSeq == Init /\ [][NextSeq]_vars

----------------------------------------------------------------------------
(* SearchOp of includes/firestore_store.py: a stream of the collection,
   filtered in memory by namespace prefix, then sliced. *)

(* The limit the callers of search pass (limit=10). *)
DefaultLimit == 10

(* The namespaces "u", ("u", "x"), "a", "u2" (for users, (users, x), admins,
   users2) and the keys "k1", "k2". *)
SearchNamespaces ==
    { <<(<<117>>)>>, <<(<<117>>), (<<120>>)>>, <<(<<97>>)>>, <<(<<117, 50>>)>> }
SearchKeys == { <<107, 49>>, <<107, 50>> }
SearchPrefixes == SearchNamespaces \cup { <<>> }
SearchFilters == { <<>>, [name |-> "Tom"] }
SearchLimits == (1 .. MaxLimit) \cup {DefaultLimit}

(* Order of document identifiers: lexicographic on code points. *)
RECURSIVE LexLess(_, _)
LexLess(a, b) ==
    IF b = <<>> THEN FALSE
    ELSE IF a = <<>> THEN TRUE
    ELSE IF a[1] # b[1] THEN a[1] < b[1]
    ELSE LexLess(Tail(a), Tail(b))

(* The identifiers of S in ascending order. *)
RECURSIVE SortedIds(_)
SortedIds(S) ==
    IF S = {} THEN <<>>
    ELSE LET m == CHOOSE x \in S : \A y \in S \ {x} : LexLess(x, y)
         IN <<m>> \o SortedIds(S \ {m})

(* query.where("value.<field>", "==", v) for every item of op.filter. *)
value_filter(body, filter) ==
    \A f \in DOMAIN filter : f \in DOMAIN body.value /\ body.value[f] = filter[f]

(* list(query.stream()): the documents that pass the filter; a query without
   order_by returns them in ascending order of document identifier. *)
stream(d, filter) ==
    SortedIds({id \in DOMAIN d : value_filter(d[id], filter)})

(* A prefix test on the joined path instead of on the segments. *)
matches_prefix_joined(namespace, namespace_prefix) ==
    \/ namespace_prefix = <<>>
    \/ /\ Len(join(namespace)) >= Len(join(namespace_prefix))
       /\ SubSeq(join(namespace), 1, Len(join(namespace_prefix))) = join(namespace_prefix)

(* The in-memory test: no prefix, or namespace[:len(prefix)] == prefix. *)
matches_prefix(namespace, namespace_prefix) ==
    \/ namespace_prefix = <<>>
    \/ /\ Len(namespace) >= Len(namespace_prefix)
       /\ SubSeq(namespace, 1, Len(namespace_prefix)) = namespace_prefix

(* A slice that ends at limit instead of offset + limit. *)
paginate_to_limit(s, offset, limit) ==
    IF offset >= Len(s) \/ offset >= limit THEN <<>>
    ELSE SubSeq(s, offset + 1, IF limit < Len(s) THEN limit ELSE Len(s))

(* filtered_docs[op.offset:op.offset + op.limit] *)
paginate(s, offset, limit) ==
    IF offset >= Len(s) THEN <<>>
    ELSE SubSeq(s, offset + 1, IF offset + limit < Len(s) THEN offset + limit ELSE Len(s))

(* SearchItem(value, key, namespace, created_at, updated_at) of a stored body. *)
search_item(body) ==
    [value      |-> body.value,
     key        |-> body.key,
     namespace  |-> body.namespace,
     created_at |-> body.created_at,
     updated_at |-> body.updated_at]

(* search_results: one SearchItem per document of the page, in page order. *)
search_items(d, page) ==
    [i \in 1 .. Len(page) |-> search_item(d[page[i]])]

(* filtered_docs: the streamed documents whose namespace matches the prefix. *)
filter_prefix(d, ids, namespace_prefix) ==
    LET keep(id) == matches_prefix(d[id].namespace, namespace_prefix)
    IN SelectSeq(ids, keep)

(* What SearchOp appends to results on the collection d. *)
search_result(d, namespace_prefix, filter, limit, offset) ==
    search_items(d, paginate(filter_prefix(d, stream(d, filter), namespace_prefix),
                             offset, limit))

SearchOp(namespace_prefix, filter, limit, offset) ==
    /\ last' = [kind |-> "search", namespace |-> namespace_prefix, key |-> <<>>,
                filter |-> filter, limit |-> limit, offset |-> offset,
                ret |-> search_result(docs, namespace_prefix, filter, limit, offset)]
    /\ UNCHANGED <<cleanVars, docs, clock, pc, op, now, existing, issued, applied, creator, raced, batchVars, saverVars>>

(* The pairs of the data sets: both keys under "u" and ("u", "x"), the first
   key under "a" and "u2"; under "k1" the value names Tom, under "k2" the job. *)
SearchPairs ==
    {pr \in SearchNamespaces \X SearchKeys :
        pr[1][1] = <<117>> \/ pr[2] = <<107, 49>>}
SearchValue(key) ==
    IF key = <<107, 49>> THEN [name |-> "Tom"] ELSE [job |-> "Engineer"]

(* The store that first puts of the pairs in S, at time 0, leave. *)
StoreOf(S) ==
    LET ids == {make_doc_id(pr[1], pr[2]) : pr \in S}
        pair(id) == CHOOSE pr \in S : make_doc_id(pr[1], pr[2]) = id
    IN [id \in ids |->
          put_body([namespace |-> pair(id)[1], key |-> pair(id)[2],
                    value |-> SearchValue(pair(id)[2])], None, 0)]

InitSearch ==
    /\ \E S \in SUBSET SearchPairs :
          /\ docs = StoreOf(S)
          /\ applied = [id \in DOMAIN StoreOf(S) |->
                          [namespace |-> StoreOf(S)[id].namespace,
                           key |-> StoreOf(S)[id].key,
                           value |-> StoreOf(S)[id].value, now |-> 0]]
          /\ creator = [id \in DOMAIN StoreOf(S) |-> 0]
    /\ clock = 0
    /\ pc = [p \in Procs |-> "idle"]
    /\ op = [p \in Procs |-> NoOp]
    /\ now = [p \in Procs |-> 0]
    /\ existing = [p \in Procs |-> None]
    /\ last = NoResult
    /\ issued = 0
    /\ raced = {}
    /\ BatchIdle
    /\ SaverIdle
    /\ CleanIdle

NextSearch ==
    \E namespace_prefix \in SearchPrefixes, filter \in SearchFilters,
       limit \in SearchLimits, offset \in 0 .. MaxOffset :
        SearchOp(namespace_prefix, filter, limit, offset)

(* Searches over every store a set of puts can leave; the data set does not change. *)
SpecSearch == InitSearch /\ [][NextSearch]_vars

----------------------------------------------------------------------------
(* The pair whose put the server applied last on document id. *)
LastPutIs(id, namespace, key) ==
    /\ id \in DOMAIN applied
    /\ applied[id].namespace = namespace
    /\ applied[id].key = key

(* C1: a get that follows a put to the same (namespace, key), with no write to
   that document after the put, returns an Item with exactly the value put (not
   a merge with the previous value) and with the requested namespace and key. *)
PutThenGet ==
    last.kind = "get" =>
        LET id == make_doc_id(last.namespace, last.key)
        IN LastPutIs(id, last.namespace, last.key) =>
              /\ last.ret # None
              /\ last.ret[1].value = applied[id].value
              /\ last.ret[1].namespace = last.namespace
              /\ last.ret[1].key = last.key

(* A get has just returned the Item of the put applied last to its pair. *)
PutThenGetWitness ==
    /\ last.kind = "get"
    /\ last.ret # None
    /\ LastPutIs(make_doc_id(last.namespace, last.key), last.namespace, last.key)

(* C2: when callers do not overlap, a put to a pair that already holds an Item
   leaves created_at as a get observed it before the put, and its updated_at is
   not smaller than the one observed before. *)
TwoPutsKeepCreatedAt ==
    [][\A p \in Procs :
          (PutWrite(p) /\ get_result(docs, op[p].namespace, op[p].key) # None) =>
              LET before == get_result(docs, op[p].namespace, op[p].key)[1]
                  after == get_result(docs', op[p].namespace, op[p].key)
              IN /\ after # None
                 /\ after[1].created_at = before.created_at
                 /\ after[1].updated_at >= before.updated_at]_vars

(* A second put has been applied, later than the first one. *)
TwoPutsWitness ==
    \E id \in DOMAIN docs : docs[id].created_at < docs[id].updated_at

(* C3: after put(namespace, key, None) a get of the pair returns None, whether
   or not the Item existed; deleting a missing Item leaves the store as it was,
   and a second delete changes nothing. *)
DeleteThenGet ==
    [][\A p \in Procs, namespace \in Namespaces, key \in Keys :
          DeleteOp(p, namespace, key) =>
              /\ get_result(docs', namespace, key) = None
              /\ (get_result(docs, namespace, key) = None => docs' = docs)
              /\ delete_doc(docs', make_doc_id(namespace, key)) = docs']_vars

(* A delete has removed an Item that existed: a put in flight still holds its snapshot. *)
DeleteWitness ==
    /\ last.kind = "delete"
    /\ make_doc_id(last.namespace, last.key) \notin DOMAIN docs
    /\ \E p \in Procs :
          /\ pc[p] = "put_write"
          /\ existing[p] # None
          /\ make_doc_id(op[p].namespace, op[p].key) = make_doc_id(last.namespace, last.key)

(* C4: a get of a pair that holds no Item returns None, and a get leaves every
   stored document as it was. *)
GetIsPure ==
    [][\A p \in Procs, namespace \in Namespaces, key \in Keys :
          GetOp(p, namespace, key) =>
              /\ docs' = docs
              /\ (make_doc_id(namespace, key) \notin DOMAIN docs => last'.ret = None)]_vars

(* A get of a missing pair returned None while the store holds another document. *)
GetMissingWitness ==
    /\ last.kind = "get"
    /\ last.ret = None
    /\ docs # <<>>

(* C7: what a get returns for a pair was written by a put to that same pair:
   a write to one (namespace, key) never shows under a different one. *)
GetSeesOwnPair ==
    (last.kind = "get" /\ last.ret # None) =>
        LastPutIs(make_doc_id(last.namespace, last.key), last.namespace, last.key)

(* C8: the stored value, namespace, key and updated_at are those of the put
   whose set() the server applied last, and a get of that pair returns its value. *)
LastWriteWins ==
    \A id \in DOMAIN docs :
        /\ id \in DOMAIN applied
        /\ docs[id].value = applied[id].value
        /\ docs[id].namespace = applied[id].namespace
        /\ docs[id].key = applied[id].key
        /\ docs[id].updated_at = applied[id].now
        /\ get_result(docs, applied[id].namespace, applied[id].key) # None
        /\ get_result(docs, applied[id].namespace, applied[id].key)[1].value
              = applied[id].value

(* Two puts to one document overlapped (both read "absent") and both completed. *)
LastWriteWinsWitness ==
    /\ \A p \in Procs : pc[p] = "idle"
    /\ issued = 2
    /\ raced \cap DOMAIN docs # {}

(* C9: created_at of a live Item differs from the timestamp of the put that
   created it only where two first-time puts both read "absent". *)
CreatedAtOnlyRaced ==
    \A id \in DOMAIN docs :
        docs[id].created_at # creator[id] => id \in raced

(* C10: every Item a get returns has created_at <= updated_at. *)
CreatedBeforeUpdated ==
    (last.kind = "get" /\ last.ret # None) =>
        last.ret[1].created_at <= last.ret[1].updated_at

----------------------------------------------------------------------------
(* Claims about search, stated without the code's operators for matching. *)

(* namespace has prefix as a leading run of whole segments. *)
StartsWith(namespace, prefix) ==
    \E n \in 0 .. Len(namespace) : SubSeq(namespace, 1, n) = prefix

(* The stored Items a search for (prefix, filter) has to range over. *)
Matching(prefix, filter) ==
    {search_item(docs[id]) : id \in
        {i \in DOMAIN docs :
            /\ StartsWith(docs[i].namespace, prefix)
            /\ \A f \in DOMAIN filter :
                  f \in DOMAIN docs[i].value /\ docs[i].value[f] = filter[f]}}

SeqRange(s) == {s[i] : i \in 1 .. Len(s)}

(* pages[i] is the page at offset i * N: the pages are lists without repeats,
   pairwise disjoint, and together they are exactly want; when want holds at
   least 2N Items the first two pages hold N each. *)
IsPartition(pages, want, N) ==
    /\ \A i \in DOMAIN pages : Cardinality(SeqRange(pages[i])) = Len(pages[i])
    /\ \A i, j \in DOMAIN pages :
          i # j => SeqRange(pages[i]) \cap SeqRange(pages[j]) = {}
    /\ UNION {SeqRange(pages[i]) : i \in DOMAIN pages} = want
    /\ (Cardinality(want) >= 2 * N => Len(pages[0]) = N /\ Len(pages[1]) = N)

(* C5: over an unchanged data set the pages offset = 0, N, 2N, ... of a search
   are pairwise disjoint, hold no Item twice and together hold every matching
   Item; with at least 2N matching Items the first two pages are full. *)
PagesPartition ==
    \A prefix \in SearchPrefixes, filter \in SearchFilters, N \in 1 .. MaxLimit :
        IsPartition([i \in 0 .. (Cardinality(Matching(prefix, filter)) \div N) |->
                        search_result(docs, prefix, filter, N, i * N)],
                    Matching(prefix, filter), N)

(* A search returned a full second page of two Items. *)
PagesPartitionWitness ==
    /\ last.kind = "search"
    /\ last.limit = 2
    /\ last.offset = 2
    /\ Len(last.ret) = 2
    /\ Cardinality(Matching(last.namespace, last.filter)) >= 4

(* C6: a search returns only stored Items whose namespace starts with the prefix
   segment by segment (and that pass the filter), as many as the page can
   hold, and all of them when the page covers them; with an empty prefix and no
   filter these are all the Items of the store. *)
SearchMatchesPrefix ==
    last.kind = "search" =>
        LET want == Matching(last.namespace, last.filter)
            rest == IF Cardinality(want) > last.offset
                    THEN Cardinality(want) - last.offset ELSE 0
        IN /\ SeqRange(last.ret) \subseteq want
           /\ Cardinality(SeqRange(last.ret)) = Len(last.ret)
           /\ Len(last.ret) = IF last.limit < rest THEN last.limit ELSE rest
           /\ (last.offset = 0 /\ last.limit >= Cardinality(want)
                  => SeqRange(last.ret) = want)
           /\ ((last.namespace = <<>> /\ last.filter = <<>> /\ last.offset = 0
                  /\ last.limit >= Cardinality(DOMAIN docs))
                  => SeqRange(last.ret) = {search_item(docs[id]) : id \in DOMAIN docs})

(* A search for "u" returned Items of "u" and of ("u", "x") from a store that
   also holds Items under "a" and "u2". *)
SearchMatchesPrefixWitness ==
    /\ last.kind = "search"
    /\ last.namespace = <<(<<117>>)>>
    /\ last.filter = <<>>
    /\ \E it \in SeqRange(last.ret) : it.namespace = <<(<<117>>)>>
    /\ \E it \in SeqRange(last.ret) : it.namespace = <<(<<117>>), (<<120>>)>>
    /\ \E id \in DOMAIN docs : docs[id].namespace = <<(<<97>>)>>
    /\ \E id \in DOMAIN docs : docs[id].namespace = <<(<<117, 50>>)>>
    /\ SeqRange(last.ret) = Matching(last.namespace, last.filter)

----------------------------------------------------------------------------
(* batch() of firestore_store.py: one pass over the operations, one result
   appended per operation, every remote call able to fail. *)

(* The longest list of operations passed to batch(). *)
MaxBatch == 3

(* U+F8FF, the upper end of the identifier range of SearchOp. *)
RangeEnd == 63743

(* namespace[:n] and namespace[-n:]; namespace[-0:] is the whole tuple. *)
head_slice(namespace, n) ==
    SubSeq(namespace, 1, IF n < Len(namespace) THEN n ELSE Len(namespace))
tail_slice(namespace, n) ==
    IF n = 0 \/ n >= Len(namespace) THEN namespace
    ELSE SubSeq(namespace, Len(namespace) - n + 1, Len(namespace))

(* Order of tuples of strings, as sorted() compares them. *)
RECURSIVE TupleLess(_, _)
TupleLess(a, b) ==
    IF b = <<>> THEN FALSE
    ELSE IF a = <<>> THEN TRUE
    ELSE IF a[1] # b[1] THEN LexLess(a[1], b[1])
    ELSE TupleLess(Tail(a), Tail(b))

(* sorted(list(namespaces)) of a set of namespaces. *)
RECURSIVE sorted_namespaces(_)
sorted_namespaces(S) ==
    IF S = {} THEN <<>>
    ELSE LET m == CHOOSE x \in S : \A y \in S \ {x} : TupleLess(x, y)
         IN <<m>> \o sorted_namespaces(S \ {m})

(* if op.max_depth and len(namespace) > op.max_depth: namespace[:op.max_depth];
   max_depth 0 stands for both None and 0. *)
truncate(namespace, max_depth) ==
    IF max_depth # 0 /\ Len(namespace) > max_depth
    THEN head_slice(namespace, max_depth) ELSE namespace

(* The documents SearchOp of firestore_store.py selects: identifiers in
   [prefix + ":", prefix + ":" + U+F8FF) when the joined prefix is not empty. *)
in_range(id, namespace_prefix) ==
    \/ join(namespace_prefix) = <<>>
    \/ /\ ~LexLess(id, join(namespace_prefix) \o <<Colon>>)
       /\ LexLess(id, join(namespace_prefix) \o <<Colon, RangeEnd>>)

(* What SearchOp of firestore_store.py appends: the range query with the value
   filter, in identifier order, offset and limit applied by the server. *)
range_search_result(d, namespace_prefix, filter, limit, offset) ==
    search_items(d,
        paginate(SortedIds({id \in DOMAIN d :
                               in_range(id, namespace_prefix) /\ value_filter(d[id], filter)}),
                 offset, limit))

(* What ListNamespacesOp of firestore_store.py appends. *)
prefix_suffix_namespaces(d, prefix, suffix, max_depth, limit, offset) ==
    paginate(sorted_namespaces(
                {truncate(d[id].namespace, max_depth) : id \in
                    {i \in DOMAIN d :
                        /\ (prefix # <<>> => head_slice(d[i].namespace, Len(prefix)) = prefix)
                        /\ (suffix # <<>> => tail_slice(d[i].namespace, Len(suffix)) = suffix)}}),
             offset, limit)

(* The operations of the batches: gets, puts and deletes under "u" and
   ("u", "v"), a search, a namespace listing and an object of no known type. *)
BatchNamespaces == { <<(<<117>>)>>, <<(<<117>>), (<<118>>)>> }
BatchOps ==
    {[type |-> "GetOp", namespace |-> namespace, key |-> key] :
        namespace \in BatchNamespaces, key \in Keys}
    \cup {[type |-> "PutOp", namespace |-> namespace, key |-> key, value |-> value] :
            namespace \in BatchNamespaces, key \in Keys,
            value \in {None} \cup {Some(v) : v \in Values}}
    \cup {[type |-> "SearchOp", namespace_prefix |-> <<(<<117>>)>>, filter |-> <<>>,
           limit |-> DefaultLimit, offset |-> 0]}
    \cup {[type |-> "ListNamespacesOp", prefix |-> <<>>, suffix |-> <<>>, max_depth |-> 0,
           limit |-> DefaultLimit, offset |-> 0]}
    \cup {[type |-> "Op"]}
BatchInputs == UNION {[1 .. n -> BatchOps] : n \in 0 .. MaxBatch}
BatchStores == {StoreOf(S) : S \in SUBSET {<<(<<(<<117>>)>>), (<<107>>)>>}}

(* What the branch of operation o appends to results on the collection d: None,
   Some(Item), or a list, kept apart from None as [list |-> ...]. *)
op_result(o, d) ==
    IF o.type = "GetOp" THEN get_result(d, o.namespace, o.key)
    ELSE IF o.type = "PutOp" THEN None
    ELSE IF o.type = "SearchOp"
        THEN [list |-> range_search_result(d, o.namespace_prefix, o.filter, o.limit, o.offset)]
    ELSE IF o.type = "ListNamespacesOp"
        THEN [list |-> prefix_suffix_namespaces(d, o.prefix, o.suffix, o.max_depth,
                                                o.limit, o.offset)]
    ELSE None

(* The collection the branch of operation o leaves, started at time t. *)
op_effect(o, d, t) ==
    IF o.type # "PutOp" THEN d
    ELSE LET id == make_doc_id(o.namespace, o.key)
         IN IF o.value = None THEN delete_doc(d, id)
            ELSE set_doc(d, id,
                    put_body([namespace |-> o.namespace, key |-> o.key, value |-> o.value[1]],
                             IF id \in DOMAIN d THEN Some(d[id]) ELSE None, t))

(* The remote calls the branch of operation o makes, in order. *)
remote_calls(o) ==
    IF o.type = "GetOp" THEN <<"get">>
    ELSE IF o.type = "PutOp" THEN (IF o.value = None THEN <<"delete">> ELSE <<"get", "set">>)
    ELSE IF o.type \in {"SearchOp", "ListNamespacesOp"} THEN <<"stream">>
    ELSE <<>>

(* A loop whose final else branch appends nothing. *)
append_result_known(res, o, d) ==
    IF o.type \in {"GetOp", "PutOp", "SearchOp", "ListNamespacesOp"}
    THEN Append(res, op_result(o, d)) ELSE res

(* results.append(...) of the branch of operation o. *)
append_result(res, o, d) == Append(res, op_result(o, d))

(* A branch that calls again after a failed call. *)
issued_calls_retry(o, k) ==
    IF k = 0 THEN [j \in 1 .. Len(remote_calls(o)) |-> [kind |-> remote_calls(o)[j], ok |-> TRUE]]
    ELSE [j \in 1 .. k |-> [kind |-> remote_calls(o)[j], ok |-> j # k]]
         \o [j \in 1 .. (Len(remote_calls(o)) - k + 1) |->
                [kind |-> remote_calls(o)[j + k - 1], ok |-> TRUE]]

(* The calls the branch of operation o issues when its k-th call raises (k = 0:
   none does): the exception leaves batch(), nothing after it is issued. *)
issued_calls(o, k) ==
    [j \in 1 .. (IF k = 0 THEN Len(remote_calls(o)) ELSE k) |->
        [kind |-> remote_calls(o)[j], ok |-> j # k]]

(* batch(ops) has been entered: results = []. *)
InitBatch ==
    /\ docs \in BatchStores
    /\ ops \in BatchInputs
    /\ results = <<>>
    /\ status = "running"
    /\ calls = <<>>
    /\ reached = <<>>
    /\ clock = 0
    /\ pc = [p \in Procs |-> "idle"]
    /\ op = [p \in Procs |-> NoOp]
    /\ now = [p \in Procs |-> 0]
    /\ existing = [p \in Procs |-> None]
    /\ last = NoResult
    /\ issued = 0
    /\ applied = <<>>
    /\ creator = <<>>
    /\ raced = {}
    /\ SaverIdle
    /\ CleanIdle

(* One iteration of `for op in ops` in which no remote call fails. *)
BatchOp ==
    /\ status = "running"
    /\ Len(reached) < Len(ops)
    /\ LET o == ops[Len(reached) + 1]
       IN /\ docs' = op_effect(o, docs, clock)
          /\ results' = append_result(results, o, docs)
          /\ calls' = calls \o issued_calls(o, 0)
    /\ reached' = Append(reached, docs)
    /\ UNCHANGED <<cleanVars, ops, status, clock, storeVars, saverVars>>

(* One iteration in which the k-th remote call raises: the calls before it were
   reads, the call itself changes nothing, the exception leaves batch(). *)
BatchFail(k) ==
    /\ status = "running"
    /\ Len(reached) < Len(ops)
    /\ k \in 1 .. Len(remote_calls(ops[Len(reached) + 1]))
    /\ calls' = calls \o issued_calls(ops[Len(reached) + 1], k)
    /\ reached' = Append(reached, docs)
    /\ status' = "raised"
    /\ UNCHANGED <<cleanVars, docs, ops, results, clock, storeVars, saverVars>>

(* return results *)
BatchReturn ==
    /\ status = "running"
    /\ Len(reached) = Len(ops)
    /\ status' = "returned"
    /\ UNCHANGED <<cleanVars, docs, ops, results, calls, reached, clock, storeVars, saverVars>>

NextBatch ==
    \/ Tick
    \/ BatchOp
    \/ \E k \in 1 .. 2 : BatchFail(k)
    \/ BatchReturn

(* One caller runs one batch, from every input list and starting store. *)
SpecBatch == InitBatch /\ [][NextBatch]_vars

----------------------------------------------------------------------------
(* Claims about batch. *)

(* The index of the last PutOp before position j that addresses document id, 0 if none. *)
LastPutBefore(j, id) ==
    LET S == {i \in 1 .. (j - 1) :
                ops[i].type = "PutOp" /\ make_doc_id(ops[i].namespace, ops[i].key) = id}
    IN IF S = {} THEN 0 ELSE CHOOSE i \in S : \A k \in S : k <= i

(* Result r is what operation o has to give on the collection d. *)
IsOutcome(r, o, d) ==
    /\ o.type = "GetOp" =>
          LET id == make_doc_id(o.namespace, o.key)
          IN IF id \notin DOMAIN d THEN r = None
             ELSE /\ r # None
                  /\ r[1].value = d[id].value
                  /\ r[1].namespace = o.namespace
                  /\ r[1].key = o.key
                  /\ r[1].created_at = d[id].created_at
                  /\ r[1].updated_at = d[id].updated_at
    /\ o.type = "PutOp" => r = None
    /\ o.type = "SearchOp" =>
          /\ DOMAIN r = {"list"}
          /\ \A n \in 1 .. Len(r.list) : \E id \in DOMAIN d : r.list[n] = search_item(d[id])
    /\ o.type = "ListNamespacesOp" =>
          /\ DOMAIN r = {"list"}
          /\ SeqRange(r.list) = {d[id].namespace : id \in DOMAIN d}
          /\ Cardinality(SeqRange(r.list)) = Len(r.list)
    /\ o.type = "Op" => r = None

(* C11: a batch that returns hands back one result per operation, in input
   order: result i is the outcome of operation i on the collection as operations
   1 .. i-1 left it, so a get sees the last put or delete to its document made
   earlier in the same batch, and the starting store when there is none. *)
BatchAligned ==
    status = "returned" =>
        /\ Len(results) = Len(ops)
        /\ \A i \in 1 .. Len(ops) : IsOutcome(results[i], ops[i], reached[i])
        /\ \A j \in 1 .. Len(ops) :
              ops[j].type = "GetOp" =>
                  LET id == make_doc_id(ops[j].namespace, ops[j].key)
                      i == LastPutBefore(j, id)
                  IN IF i = 0
                     THEN results[j] = get_result(reached[1], ops[j].namespace, ops[j].key)
                     ELSE IF ops[i].value = None THEN results[j] = None
                     ELSE results[j] # None /\ results[j][1].value = ops[i].value[1]

(* A batch of a put, a get of the same pair and a search returned on a store
   that was empty: the get and the search both see the Item the put made. *)
BatchAlignedWitness ==
    /\ status = "returned"
    /\ Len(ops) = 3
    /\ reached[1] = <<>>
    /\ ops[1].type = "PutOp" /\ ops[1].value # None
    /\ ops[2].type = "GetOp"
    /\ ops[2].namespace = ops[1].namespace /\ ops[2].key = ops[1].key
    /\ results[2] # None
    /\ ops[3].type = "SearchOp"
    /\ Len(results[3].list) = 1

(* What the call of batch() hands to its caller: the list once it has returned,
   nothing while it runs or when an exception left it. *)
Received == IF status = "returned" THEN Some(results) ELSE None

(* C12: when a batch has ended, with or without a failing member, every one of
   its operations was executed against the store and the caller holds the
   results of all the members that succeeded. *)
FailureKeepsOthers ==
    status \in {"returned", "raised"} =>
        /\ Len(reached) = Len(ops)
        /\ (results # <<>> => Received # None /\ Len(Received[1]) = Len(results))

----------------------------------------------------------------------------
(* ListNamespacesOp of includes/firestore_store.py. *)

(* The largest max_depth passed. *)
MaxDepth == 1

(* The conditions passed: none, prefix "u", suffix "x", both, prefix "a". *)
MatchConditions ==
    { <<>>,
      << <<"prefix", <<(<<117>>)>> >> >>,
      << <<"suffix", <<(<<120>>)>> >> >>,
      << <<"prefix", <<(<<117>>)>> >>, <<"suffix", <<(<<120>>)>> >> >>,
      << <<"prefix", <<(<<97>>)>> >> >> }

(* The loop over op.match_conditions: every prefix and suffix condition holds. *)
matches_conditions(namespace, match_conditions) ==
    \A n \in 1 .. Len(match_conditions) :
        /\ (match_conditions[n][1] = "prefix" =>
               head_slice(namespace, Len(match_conditions[n][2])) = match_conditions[n][2])
        /\ (match_conditions[n][1] = "suffix" =>
               tail_slice(namespace, Len(match_conditions[n][2])) = match_conditions[n][2])

(* A listing that truncates after the set was built and sorted. *)
list_namespaces_truncate_late(d, match_conditions, max_depth, limit, offset) ==
    LET full == sorted_namespaces({d[id].namespace : id \in
                    {i \in DOMAIN d : matches_conditions(d[i].namespace, match_conditions)}})
    IN paginate([n \in 1 .. Len(full) |-> truncate(full[n], max_depth)], offset, limit)

(* What ListNamespacesOp appends: the set of the truncated namespaces of the
   documents that match, sorted, then namespace_list[offset:offset + limit]. *)
list_namespaces_result(d, match_conditions, max_depth, limit, offset) ==
    paginate(sorted_namespaces(
                {truncate(d[id].namespace, max_depth) : id \in
                    {i \in DOMAIN d : matches_conditions(d[i].namespace, match_conditions)}}),
             offset, limit)

ListNamespacesOp(match_conditions, max_depth, limit, offset) ==
    /\ last' = [kind |-> "list_namespaces", namespace |-> <<>>, key |-> <<>>,
                match_conditions |-> match_conditions, max_depth |-> max_depth,
                limit |-> limit, offset |-> offset,
                ret |-> list_namespaces_result(docs, match_conditions, max_depth,
                                               limit, offset)]
    /\ UNCHANGED <<cleanVars, docs, clock, pc, op, now, existing, issued, applied, creator, raced,
                   batchVars, saverVars>>

NextNamespaces ==
    \E match_conditions \in MatchConditions, max_depth \in 0 .. MaxDepth,
       limit \in SearchLimits, offset \in 0 .. MaxOffset :
        ListNamespacesOp(match_conditions, max_depth, limit, offset)

(* The data sets of the listings: those of the searches without the second
   Item under ("u", "x"). *)
InitNamespaces ==
    /\ InitSearch
    /\ make_doc_id(<<(<<117>>), (<<120>>)>>, <<107, 50>>) \notin DOMAIN docs

(* Namespace listings over every store a set of puts can leave. *)
SpecNamespaces == InitNamespaces /\ [][NextNamespaces]_vars

----------------------------------------------------------------------------
(* Claims about list_namespaces, stated without the code's operators. *)

(* a comes before b in the lexicographic order given by less on the elements. *)
Precedes(a, b, less(_, _)) ==
    \E k \in 0 .. Len(a) :
        /\ k <= Len(b)
        /\ \A n \in 1 .. k : a[n] = b[n]
        /\ \/ k = Len(a) /\ k < Len(b)
           \/ k < Len(a) /\ k < Len(b) /\ less(a[k + 1], b[k + 1])

CodeBefore(x, y) == x < y
StrBefore(a, b) == Precedes(a, b, CodeBefore)
NsBefore(a, b) == Precedes(a, b, StrBefore)

EndsWith(namespace, suffix) ==
    \E n \in 0 .. Len(namespace) : SubSeq(namespace, n + 1, Len(namespace)) = suffix

(* The namespaces a listing has to range over: those of the stored Items that
   satisfy every condition, cut to their first max_depth segments (0: not cut). *)
Listed(match_conditions, max_depth) ==
    {IF max_depth = 0 \/ Len(docs[id].namespace) <= max_depth THEN docs[id].namespace
     ELSE SubSeq(docs[id].namespace, 1, max_depth) : id \in
        {i \in DOMAIN docs :
            \A n \in 1 .. Len(match_conditions) :
                IF match_conditions[n][1] = "prefix"
                THEN StartsWith(docs[i].namespace, match_conditions[n][2])
                ELSE EndsWith(docs[i].namespace, match_conditions[n][2])}}

(* C13: a namespace listing holds no namespace twice, also when several Items
   share a namespace or truncation maps two stored namespaces to one; its n-th
   entry is the namespace with exactly offset + n - 1 smaller ones among the
   truncated matching namespaces, and it holds as many as the page can, so the
   pages of one listing are disjoint and in order. *)
NamespacesDistinctSorted ==
    last.kind = "list_namespaces" =>
        LET want == Listed(last.match_conditions, last.max_depth)
            rest == IF Cardinality(want) > last.offset
                    THEN Cardinality(want) - last.offset ELSE 0
        IN /\ Cardinality(SeqRange(last.ret)) = Len(last.ret)
           /\ Len(last.ret) = IF last.limit < rest THEN last.limit ELSE rest
           /\ \A n \in 1 .. Len(last.ret) :
                 /\ last.ret[n] \in want
                 /\ Cardinality({x \in want : NsBefore(x, last.ret[n])}) = last.offset + n - 1

(* A listing cut to depth 1 returned "u" once, second on its page after "a",
   from a store holding two Items under "u" and Items under ("u", "x"). *)
NamespacesDistinctWitness ==
    /\ last.kind = "list_namespaces"
    /\ last.max_depth = 1
    /\ last.match_conditions = <<>>
    /\ last.offset = 0
    /\ Len(last.ret) >= 2
    /\ last.ret[1] = <<(<<97>>)>>
    /\ last.ret[2] = <<(<<117>>)>>
    /\ Cardinality({id \in DOMAIN docs : docs[id].namespace = <<(<<117>>)>>}) = 2
    /\ \E id \in DOMAIN docs : docs[id].namespace = <<(<<117>>), (<<120>>)>>

----------------------------------------------------------------------------
(* Claims about the identifier encoding and about failing remote calls. *)

(* A segment of the namespace, or the key, holds "/" or ":". *)
HasSeparator(namespace, key) ==
    \/ \E n \in 1 .. Len(namespace) : SeqRange(namespace[n]) \cap {Slash, Colon} # {}
    \/ SeqRange(key) \cap {Slash, Colon} # {}

(* C14: a get, put or delete whose namespace or key holds a separator addresses
   an identifier that no other (namespace, key) pair has.  (The other way the
   claim allows, a rejection with Malformed, is no outcome of batch().) *)
SeparatorsKeepIdsApart ==
    (last.kind \in {"get", "put", "delete"} /\ HasSeparator(last.namespace, last.key)) =>
        \A namespace \in Namespaces, key \in Keys :
            <<namespace, key>> # <<last.namespace, last.key>> =>
                make_doc_id(namespace, key) # make_doc_id(last.namespace, last.key)

(* C15: a remote call that fails is the last call the store issues (no retry,
   no later call of the operation) and its error leaves batch() to the caller;
   the store is then as the failing operation found it, so a put whose
   read-before-write failed has written nothing. *)
FailureStopsOperation ==
    /\ \A j \in 1 .. Len(calls) :
          ~calls[j].ok => (j = Len(calls) /\ status = "raised")
    /\ status = "raised" =>
          /\ calls # <<>>
          /\ ~calls[Len(calls)].ok
          /\ docs = reached[Len(reached)]

(* The read-before-write of a put to an existing Item failed: the Item still
   holds another value than the one the put carried. *)
FailedPutWitness ==
    /\ status = "raised"
    /\ calls[Len(calls)].kind = "get"
    /\ ops[Len(reached)].type = "PutOp"
    /\ ops[Len(reached)].value # None
    /\ LET id == make_doc_id(ops[Len(reached)].namespace, ops[Len(reached)].key)
       IN id \in DOMAIN docs /\ docs[id].value # ops[Len(reached)].value[1]

----------------------------------------------------------------------------
(* TimestampedFirestoreSaver of includes/timestamped_firestore_saver.py.  The
   collection maps the path of a document, <<partition id>> or <<partition id,
   checkpoint id>>, to its fields.  Times are in seconds. *)

(* The number of puts the callers of the saver start. *)
MaxPuts == 2

(* timedelta(days=1) in seconds, and the "_" of the partition id. *)
Day == 86400
Underscore == 95

(* The savers constructed: ttl_days left at its default, and ttl_days=1. *)
TtlDays == {DefaultTtlDays, 1}

(* The threads "t" and "w", the namespace "", the checkpoint ids "c1" and "c2",
   one checkpoint state. *)
Threads == { <<116>>, <<119>> }
CheckpointNs == { <<>> }
CheckpointIds == { <<99, 49>>, <<99, 50>> }
ChannelValues == { "First" }
Requests ==
    {[thread_id |-> thread_id, checkpoint_ns |-> checkpoint_ns,
      checkpoint |-> [id |-> checkpoint_id, channel_values |-> channel_values],
      metadata |-> [source |-> "test"]] :
        thread_id \in Threads, checkpoint_ns \in CheckpointNs,
        checkpoint_id \in CheckpointIds, channel_values \in ChannelValues}

(* f"{thread_id}_{checkpoint_ns}" and the document "checkpoints"/checkpoint_id under it. *)
partition_path(thread_id, checkpoint_ns) ==
    << thread_id \o <<Underscore>> \o checkpoint_ns >>
checkpoint_path(thread_id, checkpoint_ns, checkpoint_id) ==
    partition_path(thread_id, checkpoint_ns) \o <<checkpoint_id>>

(* The base saver's put: the fields it writes on the checkpoint record and the
   config it returns. *)
base_fields(req) == [checkpoint |-> req.checkpoint, metadata |-> req.metadata]
base_config(req) ==
    [thread_id |-> req.thread_id, checkpoint_ns |-> req.checkpoint_ns,
     checkpoint_id |-> req.checkpoint.id]

(* A set() without merge=True. *)
merge_set_replace(c, path, fields) ==
    [q \in DOMAIN c \cup {path} |-> IF q = path THEN fields ELSE c[q]]

(* doc_ref.set(fields, merge=True): the fields given replace those of the same
   name, the other fields of the document stay. *)
merge_set(c, path, fields) ==
    [q \in DOMAIN c \cup {path} |->
        IF q # path THEN c[q]
        ELSE IF path \notin DOMAIN c THEN fields
        ELSE [f \in DOMAIN c[path] \cup DOMAIN fields |->
                IF f \in DOMAIN fields THEN fields[f] ELSE c[path][f]]]

(* An expiry that ignores the ttl_days the saver was constructed with. *)
expire_at_default(t, d) == t + DefaultTtlDays * Day

(* datetime.now(timezone.utc) + timedelta(days=self.ttl_days) *)
expire_at_of(t, d) == t + d * Day

(* timestamp_data as the server stores it: SERVER_TIMESTAMP becomes the time
   at which the server applies the write. *)
timestamp_data(server_time, e) == [created_at |-> server_time, expire_at |-> e]

(* A put that catches the exception of the base saver and goes on with the
   config it was called with. *)
base_failure_swallowed(req) ==
    [cpc |-> "attach", result |-> Some(base_config(req)), outcome |-> "none"]

(* super().put raises: the exception leaves put, `result` is never bound. *)
base_failure(req) == [cpc |-> "idle", result |-> None, outcome |-> "raised"]

(* `if not result` and `if not (thread_id and checkpoint_id)`: nothing to attach. *)
nothing_to_attach(res) ==
    \/ res = None
    \/ res[1].thread_id = <<>>
    \/ res[1].checkpoint_id = <<>>

(* The path of the checkpoint record a request addresses. *)
request_path(req) ==
    checkpoint_path(req.thread_id, req.checkpoint_ns, req.checkpoint.id)

(* Callers give every checkpoint of a partition an id of its own. *)
fresh(req) ==
    /\ request_path(req) \notin DOMAIN checkpoints
    /\ \A q \in Procs :
          IF request[q] = None THEN TRUE
          ELSE request_path(request[q][1]) # request_path(req)

InitSaver ==
    /\ docs = <<>>
    /\ clock = 0
    /\ pc = [p \in Procs |-> "idle"]
    /\ op = [p \in Procs |-> NoOp]
    /\ now = [p \in Procs |-> 0]
    /\ existing = [p \in Procs |-> None]
    /\ last = NoResult
    /\ issued = 0
    /\ applied = <<>>
    /\ creator = <<>>
    /\ raced = {}
    /\ BatchIdle
    /\ ttl_days \in TtlDays
    /\ NoPut
    /\ CleanIdle

(* put/aput, line 61 or 67: super().put writes the checkpoint record and
   returns the config. *)
SaverPut(p, req) ==
    /\ cpc[p] = "idle"
    /\ issued < MaxPuts
    /\ fresh(req)
    /\ issued' = issued + 1
    /\ request' = [request EXCEPT ![p] = Some(req)]
    /\ checkpoints' = set_doc(checkpoints, request_path(req), base_fields(req))
    /\ result' = [result EXCEPT ![p] = Some(base_config(req))]
    /\ outcome' = [outcome EXCEPT ![p] = "none"]
    /\ cpc' = [cpc EXCEPT ![p] = "attach"]
    /\ refused' = refused \ {request_path(req)}
    /\ UNCHANGED <<cleanVars, docs, clock, pc, op, now, existing, last, applied, creator, raced,
                   batchVars, ttl_days, expire_at, attached>>

(* put/aput, line 61 or 67: super().put raises and has written nothing. *)
SaverPutFails(p, req) ==
    /\ cpc[p] = "idle"
    /\ issued < MaxPuts
    /\ fresh(req)
    /\ issued' = issued + 1
    /\ request' = [request EXCEPT ![p] = Some(req)]
    /\ result' = [result EXCEPT ![p] = base_failure(req).result]
    /\ outcome' = [outcome EXCEPT ![p] = base_failure(req).outcome]
    /\ cpc' = [cpc EXCEPT ![p] = base_failure(req).cpc]
    /\ refused' = refused \cup {request_path(req)}
    /\ UNCHANGED <<cleanVars, docs, clock, pc, op, now, existing, last, applied, creator, raced,
                   batchVars, checkpoints, ttl_days, expire_at, attached>>

(* _add_timestamps_to_checkpoint, lines 32-43: the early returns, then expire_at. *)
SaverExpire(p) ==
    /\ cpc[p] = "attach"
    /\ IF nothing_to_attach(result[p])
       THEN /\ cpc' = [cpc EXCEPT ![p] = "return"]
            /\ UNCHANGED expire_at
       ELSE /\ cpc' = [cpc EXCEPT ![p] = "partition"]
            /\ expire_at' = [expire_at EXCEPT ![p] = expire_at_of(clock, ttl_days)]
    /\ UNCHANGED <<cleanVars, docs, clock, storeVars, batchVars, checkpoints, ttl_days, request,
                   result, outcome, attached, refused>>

(* Lines 52-53: partition_doc_ref.set(timestamp_data, merge=True). *)
SaverSetPartition(p) ==
    /\ cpc[p] = "partition"
    /\ LET path == partition_path(result[p][1].thread_id, result[p][1].checkpoint_ns)
       IN /\ checkpoints' = merge_set(checkpoints, path, timestamp_data(clock, expire_at[p]))
          /\ attached' = Upd(attached, path, result[p][1].checkpoint_id)
    /\ cpc' = [cpc EXCEPT ![p] = "checkpoint"]
    /\ UNCHANGED <<cleanVars, docs, clock, storeVars, batchVars, ttl_days, request, result,
                   expire_at, outcome, refused>>

(* Lines 56-57: checkpoint_doc_ref.set(timestamp_data, merge=True). *)
SaverSetCheckpoint(p) ==
    /\ cpc[p] = "checkpoint"
    /\ checkpoints' = merge_set(checkpoints,
                                checkpoint_path(result[p][1].thread_id,
                                                result[p][1].checkpoint_ns,
                                                result[p][1].checkpoint_id),
                                timestamp_data(clock, expire_at[p]))
    /\ cpc' = [cpc EXCEPT ![p] = "return"]
    /\ UNCHANGED <<cleanVars, docs, clock, storeVars, batchVars, ttl_days, request, result,
                   expire_at, outcome, attached, refused>>

(* set(timestamp_data, merge=True) raises: neither _add_timestamps_to_checkpoint
   nor put catches it, so the exception leaves put and `return result` is not
   reached. *)
attach_failure == [cpc |-> "idle", result |-> None, outcome |-> "raised"]

(* Lines 52-53 raise: the partition record is not written. *)
SaverSetPartitionFails(p) ==
    /\ cpc[p] = "partition"
    /\ cpc' = [cpc EXCEPT ![p] = attach_failure.cpc]
    /\ result' = [result EXCEPT ![p] = attach_failure.result]
    /\ outcome' = [outcome EXCEPT ![p] = attach_failure.outcome]
    /\ expire_at' = [expire_at EXCEPT ![p] = 0]
    /\ UNCHANGED <<cleanVars, docs, clock, storeVars, batchVars, checkpoints, ttl_days, request,
                   attached, refused>>

(* Lines 56-57 raise: the partition record is written, the checkpoint record
   keeps the fields of the base write only. *)
SaverSetCheckpointFails(p) ==
    /\ cpc[p] = "checkpoint"
    /\ cpc' = [cpc EXCEPT ![p] = attach_failure.cpc]
    /\ result' = [result EXCEPT ![p] = attach_failure.result]
    /\ outcome' = [outcome EXCEPT ![p] = attach_failure.outcome]
    /\ expire_at' = [expire_at EXCEPT ![p] = 0]
    /\ UNCHANGED <<cleanVars, docs, clock, storeVars, batchVars, checkpoints, ttl_days, request,
                   attached, refused>>

(* Line 63 or 69: return result. *)
SaverReturn(p) ==
    /\ cpc[p] = "return"
    /\ outcome' = [outcome EXCEPT ![p] = "returned"]
    /\ cpc' = [cpc EXCEPT ![p] = "idle"]
    /\ result' = [result EXCEPT ![p] = None]
    /\ expire_at' = [expire_at EXCEPT ![p] = 0]
    /\ UNCHANGED <<cleanVars, docs, clock, storeVars, batchVars, checkpoints, ttl_days, request,
                   attached, refused>>

SaverStep(p) ==
    \/ \E req \in Requests : SaverPut(p, req)
    \/ \E req \in Requests : SaverPutFails(p, req)
    \/ SaverExpire(p)
    \/ SaverSetPartition(p)
    \/ SaverSetCheckpoint(p)
    \/ SaverSetPartitionFails(p)
    \/ SaverSetCheckpointFails(p)
    \/ SaverReturn(p)

NextSaver ==
    \/ Tick
    \/ \E p \in Procs : SaverStep(p)

(* Sessions that put checkpoints through one saver, interleaved at every remote call. *)
SpecSaver == InitSaver /\ [][NextSaver]_vars

----------------------------------------------------------------------------
(* Claims about the checkpoint saver. *)

TimestampFields == {"created_at", "expire_at"}

(* The paths of the checkpoint records and of the partition records that exist. *)
CheckpointPaths == {path \in DOMAIN checkpoints : Len(path) = 2}
PartitionPaths == {path \in DOMAIN checkpoints : Len(path) = 1}

(* C17: on every checkpoint record that carries the timestamps, expire_at is
   created_at plus ttl_days days, for the ttl_days the saver was constructed
   with (7 or 1). *)
ExpireIsCreatedPlusTtl ==
    /\ ttl_days \in TtlDays
    /\ \A path \in CheckpointPaths :
          TimestampFields \subseteq DOMAIN checkpoints[path] =>
              checkpoints[path].expire_at = checkpoints[path].created_at + ttl_days * Day

(* C18: when a put has made its writes and returns, the partition record and
   the checkpoint record named by the config the base saver returned both carry
   created_at and expire_at, with the same two values on both. *)
SamePairOnBoth ==
    \A p \in Procs :
        (cpc[p] = "return" /\ result[p] # None) =>
            LET pp == partition_path(result[p][1].thread_id, result[p][1].checkpoint_ns)
                cp == checkpoint_path(result[p][1].thread_id, result[p][1].checkpoint_ns,
                                      result[p][1].checkpoint_id)
            IN /\ pp \in DOMAIN checkpoints
               /\ cp \in DOMAIN checkpoints
               /\ TimestampFields \subseteq DOMAIN checkpoints[pp]
               /\ TimestampFields \subseteq DOMAIN checkpoints[cp]
               /\ checkpoints[pp].created_at = checkpoints[cp].created_at
               /\ checkpoints[pp].expire_at = checkpoints[cp].expire_at

(* The document the timestamp write of caller p is about to address. *)
AttachTarget(p) ==
    IF cpc[p] = "partition"
    THEN partition_path(result[p][1].thread_id, result[p][1].checkpoint_ns)
    ELSE checkpoint_path(result[p][1].thread_id, result[p][1].checkpoint_ns,
                         result[p][1].checkpoint_id)

(* C19: each of the two timestamp writes of a put creates or changes no
   document but the one it addresses, and on that one no field but created_at
   and expire_at: the checkpoint and metadata the base saver wrote are, after
   the write, still those the put was called with. *)
AttachKeepsOtherFields ==
    [][\A p \in Procs :
          (SaverSetPartition(p) \/ SaverSetCheckpoint(p)) =>
              LET path == AttachTarget(p)
                  old == IF path \in DOMAIN checkpoints THEN checkpoints[path] ELSE <<>>
              IN /\ DOMAIN checkpoints' = DOMAIN checkpoints \cup {path}
                 /\ \A q \in DOMAIN checkpoints \ {path} : checkpoints'[q] = checkpoints[q]
                 /\ DOMAIN checkpoints'[path] = DOMAIN old \cup TimestampFields
                 /\ \A f \in DOMAIN old \ TimestampFields : checkpoints'[path][f] = old[f]
                 /\ (cpc[p] = "checkpoint" =>
                        /\ checkpoints'[path].checkpoint = request[p][1].checkpoint
                        /\ checkpoints'[path].metadata = request[p][1].metadata)]_vars

(* A checkpoint record carries the base saver's fields and the timestamps, next
   to another checkpoint record of the same partition that has none yet. *)
AttachKeepsWitness ==
    \E a, b \in CheckpointPaths :
        /\ a # b
        /\ a[1] = b[1]
        /\ DOMAIN checkpoints[a] = {"checkpoint", "metadata"} \cup TimestampFields
        /\ DOMAIN checkpoints[b] = {"checkpoint", "metadata"}

(* C20: a put whose base write failed has ended in an exception at its caller
   and has written no timestamps: there is no record at the path of its
   checkpoint, no checkpoint record is made of timestamps alone, and the
   partition record was not stamped on behalf of that checkpoint. *)
BaseFailureAttachesNothing ==
    /\ \A path \in refused :
          /\ path \notin DOMAIN checkpoints
          /\ (<<path[1]>> \in DOMAIN attached => attached[<<path[1]>>] # path[2])
          /\ \A p \in Procs :
                (request[p] # None /\ request_path(request[p][1]) = path) =>
                    (outcome[p] = "raised" /\ cpc[p] = "idle")
    /\ \A path \in CheckpointPaths : "checkpoint" \in DOMAIN checkpoints[path]

(* The base write of a put to a partition failed while the partition record
   carries the timestamps of another checkpoint. *)
BaseFailureWitness ==
    \E path \in refused :
        /\ <<path[1]>> \in DOMAIN checkpoints
        /\ \E p \in Procs : outcome[p] = "raised"

(* C21: a put whose base write succeeded ends by returning to its caller, also
   when one of its timestamp writes failed, and the checkpoint record of the
   base write is still there. *)
AttachFailureNotFatal ==
    \A p \in Procs :
        IF request[p] = None THEN TRUE
        ELSE (cpc[p] = "idle" /\ request_path(request[p][1]) \notin refused) =>
                 /\ request_path(request[p][1]) \in DOMAIN checkpoints
                 /\ outcome[p] = "returned"

----------------------------------------------------------------------------
(* Partitions whose thread_id or checkpoint_ns holds the "_" that the
   partition id is joined with: the threads "t" and "t_", the namespaces ""
   and "_". *)
PartitionThreads == { <<116>>, <<116, Underscore>> }
PartitionNs == { <<>>, <<Underscore>> }
PartitionRequests ==
    {[thread_id |-> thread_id, checkpoint_ns |-> checkpoint_ns,
      checkpoint |-> [id |-> checkpoint_id, channel_values |-> channel_values],
      metadata |-> [source |-> "test"]] :
        thread_id \in PartitionThreads, checkpoint_ns \in PartitionNs,
        checkpoint_id \in CheckpointIds, channel_values \in ChannelValues}

PartitionStep(p) ==
    \/ \E req \in PartitionRequests : SaverPut(p, req)
    \/ \E req \in PartitionRequests : SaverPutFails(p, req)
    \/ SaverExpire(p)
    \/ SaverSetPartition(p)
    \/ SaverSetCheckpoint(p)
    \/ SaverSetPartitionFails(p)
    \/ SaverSetCheckpointFails(p)
    \/ SaverReturn(p)

NextPartitions ==
    \/ Tick
    \/ \E p \in Procs : PartitionStep(p)

(* The saver used with thread ids and namespaces that hold "_". *)
SpecPartitions == InitSaver /\ [][NextPartitions]_vars

(* The (thread_id, checkpoint_ns) pair a request addresses. *)
PairOf(req) == <<req.thread_id, req.checkpoint_ns>>

(* C22: a step of a put to one (thread_id, checkpoint_ns) pair leaves the
   partition record and every checkpoint record of the partition of a put to
   another pair as they were, and creates none there. *)
PartitionsIsolated ==
    [][\A p, q \in Procs :
          IF request'[p] = None \/ request[q] = None THEN TRUE
          ELSE (cpc'[p] # cpc[p] /\ PairOf(request'[p][1]) # PairOf(request[q][1])) =>
                   \A path \in DOMAIN checkpoints \cup DOMAIN checkpoints' :
                       path[1] = partition_path(request[q][1].thread_id,
                                                request[q][1].checkpoint_ns)[1] =>
                           /\ path \in DOMAIN checkpoints
                           /\ path \in DOMAIN checkpoints'
                           /\ checkpoints'[path] = checkpoints[path]]_vars

(* The checkpoint records of a partition. *)
RecordsOf(c, partition) == {path \in DOMAIN c : Len(path) = 2 /\ path[1] = partition}

(* C23: no step of the saver removes a checkpoint record or changes the
   checkpoint and metadata stored on it, and the base write of a put with a new
   checkpoint_id adds exactly one record to its partition: n such puts leave n
   records. *)
AppendOnly ==
    [][/\ \A path \in CheckpointPaths :
             /\ path \in DOMAIN checkpoints'
             /\ {"checkpoint", "metadata"} \subseteq DOMAIN checkpoints'[path]
             /\ checkpoints'[path].checkpoint = checkpoints[path].checkpoint
             /\ checkpoints'[path].metadata = checkpoints[path].metadata
       /\ \A p \in Procs :
             (cpc[p] = "idle" /\ cpc'[p] = "attach") =>
                 LET partition == request_path(request'[p][1])[1]
                 IN /\ request_path(request'[p][1]) \notin DOMAIN checkpoints
                    /\ Cardinality(RecordsOf(checkpoints', partition)) =
                           Cardinality(RecordsOf(checkpoints, partition)) + 1]_vars

(* Two puts with two checkpoint ids to one partition have returned, and the
   partition holds both records, each with its timestamps. *)
AppendOnlyWitness ==
    /\ \A p \in Procs : cpc[p] = "idle" /\ outcome[p] = "returned"
    /\ \E partition \in {path[1] : path \in CheckpointPaths} :
          /\ Cardinality(RecordsOf(checkpoints, partition)) = 2
          /\ \A path \in RecordsOf(checkpoints, partition) :
                TimestampFields \subseteq DOMAIN checkpoints[path]

----------------------------------------------------------------------------
(* The cleanup tools clear_checkpoints.py and force_delete_checkpoints.py,
   run by an operator against the checkpoints collection while a saver may be
   writing to it. *)

(* batch_size, 100 in clear_checkpoints and 500 in force_delete_checkpoints,
   scaled down so that the deletion loops iterate more than once. *)
BatchSize == 1

(* What the operator may type: "yes", "YES", "Yes", "yes ", "no", "",
   "DELETE", "delete". *)
Yes == <<121, 101, 115>>
Delete == <<68, 69, 76, 69, 84, 69>>
Responses ==
    { Yes, <<89, 69, 83>>, <<89, 101, 115>>, <<121, 101, 115, 32>>, <<110, 111>>, <<>>,
      Delete, <<100, 101, 108, 101, 116, 101>> }

(* str.lower() on the letters A-Z. *)
lower(r) == [i \in 1 .. Len(r) |-> IF r[i] \in 65 .. 90 THEN r[i] + 32 ELSE r[i]]

(* A tool that deletes whatever the operator answers. *)
confirmed_always(t, r) == TRUE

(* `response.lower() != "yes"` of clear_checkpoints, `response != "DELETE"` of
   force_delete_checkpoints: whether the tool goes on to delete. *)
confirmed(t, r) == IF t = "clear" THEN lower(r) = Yes ELSE r = Delete

(* collection.stream(): only the partitions that have a document. *)
list_documents_existing(c) == SortedIds({path[1] : path \in {q \in DOMAIN c : Len(q) = 1}})

(* collection.list_documents(): the ids of the partition documents and of the
   missing documents that have sub-documents, in id order. *)
list_documents(c) == SortedIds({path[1] : path \in DOMAIN c})

(* subcollection.limit(batch_size).stream(): the first batch_size checkpoint
   records of the partition, in id order. *)
stream_limit(c, partition, batch_size) ==
    LET ids == SortedIds({path[2] : path \in RecordsOf(c, partition)})
    IN [i \in 1 .. (IF Len(ids) < batch_size THEN Len(ids) ELSE batch_size) |->
           <<partition, ids[i]>>]

(* A commit that deletes nothing. *)
delete_none(c, S) == c

(* batch.delete(doc.reference) for each doc, batch.commit(); also ref.delete()
   with one reference: the documents of S are gone, deleting a missing one is
   not an error. *)
delete_all(c, S) == [q \in DOMAIN c \ S |-> c[q]]

(* The collections the tools are started on: a checkpoint record as a put
   leaves it, and stores built from the partitions that have a document and
   the (partition, checkpoint id) pairs that have a record. *)
stored_record(checkpoint_id) ==
    [checkpoint |-> [id |-> checkpoint_id, channel_values |-> "First"],
     metadata |-> [source |-> "test"],
     created_at |-> 0, expire_at |-> expire_at_of(0, DefaultTtlDays)]
store_of(partitions, records) ==
    [path \in {<<partition>> : partition \in partitions} \cup records |->
        IF Len(path) = 1 THEN timestamp_data(0, expire_at_of(0, DefaultTtlDays))
        ELSE stored_record(path[2])]
CleanStores ==
    LET t == partition_path(<<116>>, <<>>)[1]
        w == partition_path(<<119>>, <<>>)[1]
        c1 == <<99, 49>>
        c2 == <<99, 50>>
    IN { store_of({}, {}),
         store_of({t}, {<<t, c1>>, <<t, c2>>}),
         store_of({w}, {<<t, c1>>}),
         store_of({t, w}, {<<t, c1>>, <<w, c1>>}) }

(* An operator has started one of the tools on a collection; a saver with the
   default ttl_days shares the collection. *)
InitCleanup ==
    /\ docs = <<>>
    /\ clock = 0
    /\ pc = [p \in Procs |-> "idle"]
    /\ op = [p \in Procs |-> NoOp]
    /\ now = [p \in Procs |-> 0]
    /\ existing = [p \in Procs |-> None]
    /\ last = NoResult
    /\ issued = 0
    /\ applied = <<>>
    /\ creator = <<>>
    /\ raced = {}
    /\ BatchIdle
    /\ ttl_days = DefaultTtlDays
    /\ checkpoints \in CleanStores
    /\ cpc = [p \in Procs |-> "idle"]
    /\ request = [p \in Procs |-> None]
    /\ result = [p \in Procs |-> None]
    /\ expire_at = [p \in Procs |-> 0]
    /\ outcome = [p \in Procs |-> "none"]
    /\ attached = <<>>
    /\ refused = {}
    /\ tool \in {"clear", "force"}
    /\ tpc = (IF tool = "clear" THEN "count" ELSE "input")
    /\ response = None
    /\ partition_refs = <<>>
    /\ streamed = <<>>
    /\ sub_deleted = 0
    /\ deleted_count = 0
    /\ removed = 0
    /\ reported = 0
    /\ at_start = checkpoints

(* The first call a tool makes on a partition reference that changes what it
   does: the stream() of the while loop in clear_checkpoints (partition_ref.get()
   before it only prints), doc_ref.collections() in force_delete_checkpoints. *)
first_call(t) == IF t = "clear" THEN "stream" ELSE "collections"

(* clear_checkpoints.main, lines 93-109: nothing to delete ends the tool before
   it asks; the sample stream of line 105 only prints. *)
CleanCount ==
    /\ tool = "clear"
    /\ tpc = "count"
    /\ tpc' = (IF list_documents(checkpoints) = <<>> THEN "finished" ELSE "input")
    /\ UNCHANGED <<docs, clock, storeVars, batchVars, saverVars, tool, response,
                   partition_refs, streamed, sub_deleted, deleted_count, removed, reported,
                   at_start>>

(* input(...) and the test of the answer: line 112-116, or line 92-95. *)
CleanInput(r) ==
    /\ tpc = "input"
    /\ response' = Some(r)
    /\ tpc' = (IF confirmed(tool, r) THEN "list" ELSE "cancelled")
    /\ UNCHANGED <<docs, clock, storeVars, batchVars, saverVars, tool, partition_refs,
                   streamed, sub_deleted, deleted_count, removed, reported, at_start>>

(* list(collection.list_documents()) and the `if not` after it: lines 35-39,
   or 26-30. *)
CleanList ==
    /\ tpc = "list"
    /\ partition_refs' = list_documents(checkpoints)
    /\ tpc' = (IF partition_refs' = <<>> THEN "done" ELSE first_call(tool))
    /\ UNCHANGED <<docs, clock, storeVars, batchVars, saverVars, tool, response, streamed,
                   sub_deleted, deleted_count, removed, reported, at_start>>

(* force_delete_checkpoints, lines 41-43: list(doc_ref.collections()); the
   only sub-collection of a partition is "checkpoints", listed when it holds a
   document. *)
CleanCollections ==
    /\ tpc = "collections"
    /\ tpc' = (IF RecordsOf(checkpoints, Head(partition_refs)) # {} THEN "stream"
               ELSE "delete")
    /\ UNCHANGED <<docs, clock, storeVars, batchVars, saverVars, tool, response,
                   partition_refs, streamed, sub_deleted, deleted_count, removed, reported,
                   at_start>>

(* docs = list(coll.limit(batch_size).stream()) and `if not docs: break`:
   lines 60-62, or 71-73. *)
CleanStream ==
    /\ tpc = "stream"
    /\ streamed' = stream_limit(checkpoints, Head(partition_refs), BatchSize)
    /\ tpc' = (IF streamed' = <<>> THEN "delete" ELSE "commit")
    /\ UNCHANGED <<docs, clock, storeVars, batchVars, saverVars, tool, response,
                   partition_refs, sub_deleted, deleted_count, removed, reported, at_start>>

(* The batch of deletes and its commit, then the subtotal: lines 64-69, or 76-81. *)
CleanCommit ==
    /\ tpc = "commit"
    /\ checkpoints' = delete_all(checkpoints, SeqRange(streamed))
    /\ removed' = removed + Cardinality(DOMAIN checkpoints \ DOMAIN checkpoints')
    /\ sub_deleted' = sub_deleted + Len(streamed)
    /\ tpc' = "stream"
    /\ UNCHANGED <<docs, clock, storeVars, batchVars, ttl_days, cpc, request, result,
                   expire_at, outcome, attached, refused, tool, response, partition_refs,
                   streamed, deleted_count, reported, at_start>>

(* batch.commit() raises (line 67, or 79): no handler in delete_checkpoints,
   delete_collection or their callers, the exception ends the tool. *)
CleanCommitFails ==
    /\ tpc = "commit"
    /\ tpc' = "aborted"
    /\ UNCHANGED <<docs, clock, storeVars, batchVars, saverVars, tool, response,
                   partition_refs, streamed, sub_deleted, deleted_count, removed, reported,
                   at_start>>

(* deleted_count after one partition: the sub-documents deleted (line 83, or
   line 51) and one more when the delete() of the partition did not raise
   (line 78, or 57). *)
counted(count, sub, ok) == count + sub + (IF ok THEN 1 ELSE 0)

(* The end of the for body: the next reference, or `return deleted_count`. *)
next_partition(refs) == IF Tail(refs) = <<>> THEN "done" ELSE first_call(tool)

(* partition_ref.delete() inside try, lines 76-79, or 54-57. *)
CleanDelete ==
    /\ tpc = "delete"
    /\ checkpoints' = delete_all(checkpoints, {<<Head(partition_refs)>>})
    /\ removed' = removed + Cardinality(DOMAIN checkpoints \ DOMAIN checkpoints')
    /\ deleted_count' = counted(deleted_count, sub_deleted, TRUE)
    /\ sub_deleted' = 0
    /\ streamed' = <<>>
    /\ partition_refs' = Tail(partition_refs)
    /\ tpc' = next_partition(partition_refs)
    /\ UNCHANGED <<docs, clock, storeVars, batchVars, ttl_days, cpc, request, result,
                   expire_at, outcome, attached, refused, tool, response, reported, at_start>>

(* partition_ref.delete() raises and the except branch prints the error:
   lines 80-81, or 58-59. *)
CleanDeleteFails ==
    /\ tpc = "delete"
    /\ reported' = reported + 1
    /\ deleted_count' = counted(deleted_count, sub_deleted, FALSE)
    /\ sub_deleted' = 0
    /\ streamed' = <<>>
    /\ partition_refs' = Tail(partition_refs)
    /\ tpc' = next_partition(partition_refs)
    /\ UNCHANGED <<docs, clock, storeVars, batchVars, saverVars, tool, response, removed,
                   at_start>>

CleanStep ==
    \/ CleanCount
    \/ \E r \in Responses : CleanInput(r)
    \/ CleanList
    \/ CleanCollections
    \/ CleanStream
    \/ CleanCommit
    \/ CleanCommitFails
    \/ CleanDelete
    \/ CleanDeleteFails

(* The session that puts checkpoints while the tool runs, and its put. *)
Writer == CHOOSE p \in Procs : TRUE
WriterStep ==
    \/ \E req \in Requests : SaverPut(Writer, req)
    \/ SaverExpire(Writer)
    \/ SaverSetPartition(Writer)
    \/ SaverSetCheckpoint(Writer)
    \/ SaverReturn(Writer)

NextCleanup ==
    \/ CleanStep
    \/ WriterStep

(* One run of a cleanup tool, interleaved with the puts of a saver at every
   remote call. *)
SpecCleanup == InitCleanup /\ [][NextCleanup]_vars

(* C29: every checkpoint record that exists holds the checkpoint fields of the
   base write; none is made of created_at and expire_at alone. *)
NoTimestampOnlyRecord ==
    \A path \in CheckpointPaths :
        {"checkpoint", "metadata"} \subseteq DOMAIN checkpoints[path]

(* The list a tool works through holds every partition of the collection,
   those without a document of their own included; and with no put started
   since the tool began, the delete() of a partition document is reached only
   when the partition has no checkpoint record left. *)
CleanupOrder ==
    /\ [][(tpc = "list" /\ tpc' # "list") =>
              SeqRange(partition_refs') = {path[1] : path \in DOMAIN checkpoints}]_vars
    /\ [][(tpc = "delete" /\ partition_refs' # partition_refs /\ issued = 0) =>
              RecordsOf(checkpoints, Head(partition_refs)) = {}]_vars

(* C24 as stated: the tools work through every partition, delete a partition
   document after its checkpoint records, and a run that completes with no
   concurrent writer leaves the collection empty. *)
CleanupLeavesNothing ==
    /\ CleanupOrder
    /\ []((tpc = "done" /\ issued = 0) => checkpoints = <<>>)

(* C24, amended: the same, for a run in which no delete() of a partition
   document failed. *)
CleanupLeavesNothingUnlessFailed ==
    /\ CleanupOrder
    /\ []((tpc = "done" /\ issued = 0 /\ reported = 0) => checkpoints = <<>>)

(* A run has completed, with no writer and no failure, on a collection that
   had a partition document and a partition known only by its records. *)
CleanupWitness ==
    /\ tpc = "done"
    /\ issued = 0
    /\ reported = 0
    /\ checkpoints = <<>>
    /\ \E path \in DOMAIN at_start : Len(path) = 1
    /\ \E path \in DOMAIN at_start : Len(path) = 2 /\ <<path[1]>> \notin DOMAIN at_start

(* The confirmation token of a tool: "yes" in any letter case for
   clear_checkpoints, "DELETE" as it stands for force_delete_checkpoints. *)
IsToken(t, r) ==
    IF t = "clear"
    THEN Len(r) = 3 /\ r[1] \in {121, 89} /\ r[2] \in {101, 69} /\ r[3] \in {115, 83}
    ELSE r = <<68, 69, 76, 69, 84, 69>>

(* The tool has deleted nothing, and with no put started the collection is
   as it was when the tool began. *)
Untouched == removed = 0 /\ (issued = 0 => checkpoints = at_start)

(* C25: a tool deletes nothing before the operator has answered; it goes on to
   delete when the answer is its token, and for every other answer it stops
   and leaves the collection as it was. *)
DeletesOnlyOnToken ==
    IF response = None THEN Untouched
    ELSE IF IsToken(tool, response[1]) THEN tpc # "cancelled"
    ELSE tpc = "cancelled" /\ Untouched

(* clear_checkpoints was answered "yes " on a collection that holds documents
   and has stopped. *)
CancelledWitness ==
    /\ tool = "clear"
    /\ response = Some(<<121, 101, 115, 32>>)
    /\ tpc = "cancelled"
    /\ checkpoints # <<>>
    /\ checkpoints = at_start

(* C26: a deletion that fails, of a batch of checkpoint records or of a
   partition document, does not end the tool before it has worked through the
   remaining partitions, and the count the tool ends with is the number of
   documents it has deleted. *)
FailuresDoNotAbort ==
    /\ tpc # "aborted"
    /\ (tpc = "done" => deleted_count = removed)

(* A tool that is started keeps running: it is a sequential program, each of
   its remote calls comes back, with a result or with an exception. *)
SpecCleanupFair == InitCleanup /\ [][NextCleanup]_vars /\ WF_vars(CleanStep)

(* The tool has left its loops: nothing to delete, cancelled, returned, or
   ended by an exception. *)
Ended == tpc \in {"finished", "cancelled", "done", "aborted"}

(* C30: an iteration of a deletion loop streams at most batch_size records and
   its commit leaves none of them, so the partition has fewer records after
   it; the loop is left when a stream returns none; and with the finitely many
   puts of the savers every run of a tool ends. *)
LoopsTerminate ==
    /\ [][(tpc = "commit" /\ tpc' = "stream") =>
              /\ Len(streamed) \in 1 .. BatchSize
              /\ SeqRange(streamed) \cap DOMAIN checkpoints' = {}
              /\ Cardinality(RecordsOf(checkpoints', Head(partition_refs))) <
                     Cardinality(RecordsOf(checkpoints, Head(partition_refs)))]_vars
    /\ [][(tpc = "stream" /\ tpc' # "stream") => (tpc' = "delete" <=> streamed' = <<>>)]_vars
    /\ <>Ended

(* A tool has returned after deleting three or more documents while a saver
   was putting checkpoints into the collection. *)
LoopsTerminateWitness ==
    /\ tpc = "done"
    /\ issued > 0
    /\ removed >= 3

----------------------------------------------------------------------------
(* SearchOp of firestore_store.py, the range query on document identifiers,
   over the stores of InitSearch. *)
RangeSearchOp(namespace_prefix, filter, limit, offset) ==
    /\ last' = [kind |-> "range_search", namespace |-> namespace_prefix, key |-> <<>>,
                filter |-> filter, limit |-> limit, offset |-> offset,
                ret |-> range_search_result(docs, namespace_prefix, filter, limit, offset)]
    /\ UNCHANGED <<docs, clock, pc, op, now, existing, issued, applied, creator, raced,
                   batchVars, saverVars, cleanVars>>

NextRange ==
    \E namespace_prefix \in SearchPrefixes, filter \in SearchFilters,
       limit \in SearchLimits, offset \in 0 .. MaxOffset :
        RangeSearchOp(namespace_prefix, filter, limit, offset)

SpecRange == InitSearch /\ [][NextRange]_vars

(* C27: a range-query search whose page covers the store returns the Items
   the in-memory filter returns for the same arguments, which are the stored
   Items whose namespace starts with the prefix segment by segment. *)
RangeSearchIsPrefixSearch ==
    (last.kind = "range_search" /\ last.offset = 0
        /\ last.limit >= Cardinality(DOMAIN docs)) =>
        /\ SeqRange(last.ret) =
               SeqRange(search_result(docs, last.namespace, last.filter, last.limit,
                                      last.offset))
        /\ SeqRange(last.ret) = Matching(last.namespace, last.filter)

----------------------------------------------------------------------------
(* C28: when no put is in flight, the partition record of every checkpoint
   record that carries an expire_at carries one too, and it is not earlier than
   that of the checkpoint record. *)
PartitionOutlivesCheckpoints ==
    (\A p \in Procs : cpc[p] = "idle") =>
        \A path \in CheckpointPaths :
            "expire_at" \in DOMAIN checkpoints[path] =>
                /\ <<path[1]>> \in DOMAIN checkpoints
                /\ "expire_at" \in DOMAIN checkpoints[<<path[1]>>]
                /\ checkpoints[<<path[1]>>].expire_at >= checkpoints[path].expire_at

====
